---- MODULE Spec2Model ----
(***************************************************************************)
(* The autograd graph engine of tinygrad/tensor.py: Function.__init__,     *)
(* Function.apply, Tensor.__init__, assign, detach, to, deepwalk and       *)
(* backward, as a state machine over a pool of Tensor objects.             *)
(*                                                                         *)
(* Python's True / False / None are the strings "True" / "False" / "None". *)
(* A Tensor is an index into the sequences lazydata, requires_grad, ctx    *)
(* and grad.  A LazyBuffer is a record [id, shape, device]; two tensors    *)
(* hold the same buffer exactly when their records are equal.  A gradient  *)
(* tensor is held by value in grad[t].                                     *)
(***************************************************************************)
EXTENDS Integers, Sequences, FiniteSets, Bags, TLC

\* ---- bounds of the model ----
MaxNodes == 4          \* tensors in SpecGraph
MaxBackward == 2       \* backward calls in SpecGraph and SpecFlags
MaxFlagNodes == 3      \* tensors in SpecFlags
MaxDataNodes == 3      \* tensors in SpecData
MaxDataBackward == 1   \* backward calls in SpecData

\* ---- value domains ----
Tri == {"True", "False", "None"}
Scalar == << >>
Shapes == {Scalar, <<2>>}
Devices == {"CPU", "DISK"}
Arities == {1, 2}

VARIABLES
  lazydata,       \* Tensor.lazydata  : the buffer record of each tensor
  requires_grad,  \* Tensor.requires_grad : "True" | "False" | "None"
  ctx,            \* Tensor._ctx      : [state, parents, needs_input_grad, requires_grad, device]
  grad,           \* Tensor.grad      : the gradient tensor, by value
  no_grad,        \* Tensor.no_grad   : the class-level flag
  pc,             \* "idle", or "loop" inside the for loop of backward
  root,           \* self of the running backward
  todo,           \* what is left of reversed(self.deepwalk())
  entry,          \* ctx and grad as they were when the running backward was entered
  absent,         \* the <<child, slot>> for which a rule of the running backward returned None
  calls,          \* number of backward calls made so far
  last,           \* the last call: its name and the error it raised ("" for none)
  input,          \* the arguments of a call of a shape-level method (__getitem__, cat, _pool, _broadcasted)
  output          \* what that call returned

vars == <<lazydata, requires_grad, ctx, grad, no_grad, pc, root, todo, entry, absent, calls, last,
          input, output>>

\* the autograd state, which the shape-level methods leave alone
graphVars == <<lazydata, requires_grad, ctx, grad, no_grad, pc, root, todo, entry, absent, calls, last>>

Nodes == 1..Len(ctx)

Range(s) == {s[i] : i \in DOMAIN s}

RECURSIVE Reverse(_)
Reverse(s) == IF s = << >> THEN << >> ELSE Append(Reverse(Tail(s)), Head(s))

\* ---- Tensor.__init__ ----

\* self._ctx = None
NoCtx == [state |-> "none", parents |-> << >>, needs_input_grad |-> << >>,
          requires_grad |-> "None", device |-> "CPU"]

\* the attribute after `del t0._ctx`: reading it raises AttributeError
DeletedCtx == [NoCtx EXCEPT !.state = "deleted"]

\* self.grad = None
NoGrad == [set |-> FALSE, requires_grad |-> "None", ctx |-> "none",
           shape |-> Scalar, device |-> "CPU", val |-> 0, terms |-> EmptyBag]

\* The buffer a new Tensor with index id wraps: a LazyBuffer on another device
\* is realized and copied to the requested device, otherwise it is shared.
TensorData(data, device, id) ==
  IF data.device # device THEN [id |-> id, shape |-> data.shape, device |-> device]
                          ELSE data

\* A buffer made from raw data (a number, a list, an ndarray).
RawData(shape, device, id) == [id |-> id, shape |-> shape, device |-> device]

shape(t) == lazydata[t].shape
device(t) == lazydata[t].device

\* ---- Function.__init__ ----

\* Python truthiness of a requires_grad value
Truthy(r) == r = "True"

\* needs_input_grad = [t.requires_grad for t in self.parents]
needsInputGrad(parents) == [i \in DOMAIN parents |-> requires_grad[parents[i]]]

\* a mutant: an unresolved parent counts as not requiring gradients
ctxRequiresGradNoNone(nig) ==
  IF \E i \in DOMAIN nig : Truthy(nig[i]) THEN "True" ELSE "False"

\* requires_grad = True if any(nig) else (None if any(x is None for x in nig) else False)
ctxRequiresGrad(nig) ==
  IF \E i \in DOMAIN nig : Truthy(nig[i]) THEN "True"
  ELSE IF \E i \in DOMAIN nig : nig[i] = "None" THEN "None"
  ELSE "False"

\* a mutant: the context records the node it produces in place of its first input
FunctionHoldingResult(dev, parents) ==
  [state |-> "set", parents |-> [parents EXCEPT ![1] = Len(ctx) + 1],
   needs_input_grad |-> needsInputGrad(parents),
   requires_grad |-> ctxRequiresGrad(needsInputGrad(parents)), device |-> dev]

Function(dev, parents) ==
  [state |-> "set", parents |-> parents, needs_input_grad |-> needsInputGrad(parents),
   requires_grad |-> ctxRequiresGrad(needsInputGrad(parents)), device |-> dev]

\* ---- Function.apply ----

\* a mutant: the context is attached whatever Tensor.no_grad says
attachCtxIgnoringNoGrad(c) == IF Truthy(c.requires_grad) THEN c ELSE NoCtx

\* if ctx.requires_grad and not Tensor.no_grad: ret._ctx = ctx
attachCtx(c) == IF Truthy(c.requires_grad) /\ ~no_grad THEN c ELSE NoCtx

Call(op, err) == [op |-> op, err |-> err]

NoEntry == [ctx |-> << >>, grad |-> << >>]

\* no backward is running: the locals of backward are gone
Idle == /\ pc' = "idle" /\ root' = 0 /\ todo' = << >> /\ entry' = NoEntry /\ absent' = {}
        /\ UNCHANGED <<input, output>>

\* A new Tensor object: its index is Len(ctx) + 1.
NewId == Len(ctx) + 1

NewTensor(buf, rg, c, g) ==
  /\ lazydata' = Append(lazydata, buf)
  /\ requires_grad' = Append(requires_grad, rg)
  /\ ctx' = Append(ctx, c)
  /\ grad' = Append(grad, g)

\* ---- the caller's operations ----

\* Tensor(data, device=d, requires_grad=r) on raw data of shape s
NewLeaf(s, d, r) ==
  /\ pc = "idle"
  /\ NewTensor(RawData(s, d, NewId), r, NoCtx, NoGrad)
  /\ last' = Call("Tensor", "")
  /\ Idle
  /\ UNCHANGED <<no_grad, calls>>

\* Tensor.no_grad = b
SetNoGrad(b) ==
  /\ pc = "idle"
  /\ no_grad # b
  /\ no_grad' = b
  /\ last' = Call("no_grad", "")
  /\ Idle
  /\ UNCHANGED <<lazydata, requires_grad, ctx, grad, calls>>

\* t.requires_grad = r: the attribute is public, and a caller (an optimizer
\* adopting a parameter, a caller freezing one) rewrites it
SetRequiresGrad(t, r) ==
  /\ pc = "idle"
  /\ requires_grad[t] # r
  /\ requires_grad' = [requires_grad EXCEPT ![t] = r]
  /\ last' = Call("requires_grad", "")
  /\ Idle
  /\ UNCHANGED <<lazydata, ctx, grad, no_grad, calls>>

\* fxn.apply(*x): out is the shape of the buffer ctx.forward returns
Apply(x, out) ==
  /\ pc = "idle"
  /\ LET c == Function(device(x[1]), x)
     IN NewTensor(TensorData([id |-> NewId, shape |-> out, device |-> c.device],
                             c.device, NewId),
                  c.requires_grad, attachCtx(c), NoGrad)
  /\ last' = Call("apply", "")
  /\ Idle
  /\ UNCHANGED <<no_grad, calls>>

\* a mutant: the context is dropped when the buffer is replaced
assignCtxCleared(t) == NoCtx

\* assign leaves self._ctx alone
assignCtx(t) == ctx[t]

\* a mutant: the replacement may require gradients
assignChecksShapeOnly(t, xbuf, xrg) ==
  shape(t) = xbuf.shape /\ device(t) = xbuf.device

\* assert self.shape == x.shape and self.device == x.device; assert not x.requires_grad
assignChecks(t, xbuf, xrg) ==
  /\ shape(t) = xbuf.shape /\ device(t) = xbuf.device
  /\ ~Truthy(xrg)

\* self.assign(x): x = 0 stands for raw data of shape s, wrapped in a temporary Tensor
Assign(t, x, s) ==
  /\ pc = "idle"
  /\ x # 0 => s = Scalar
  /\ LET disk == device(t) = "DISK"
         xbuf == IF x = 0 THEN RawData(s, IF disk THEN "CPU" ELSE device(t), 0)
                          ELSE lazydata[x]
         xrg  == IF x = 0 THEN "None" ELSE requires_grad[x]
     IN IF disk
          THEN \* the data is copied into the realized buffer; the Tensor is untouched
               /\ last' = Call("assign", "")
               /\ UNCHANGED <<lazydata, ctx>>
          ELSE IF ~assignChecks(t, xbuf, xrg)
          THEN /\ last' = Call("assign", "AssertionError")
               /\ UNCHANGED <<lazydata, ctx>>
          ELSE /\ lazydata' = [lazydata EXCEPT ![t] = xbuf]
               /\ ctx' = [ctx EXCEPT ![t] = assignCtx(t)]
               /\ last' = Call("assign", "")
  /\ Idle
  /\ UNCHANGED <<requires_grad, grad, no_grad, calls>>

\* self.detach()
Detach(t) ==
  /\ pc = "idle"
  /\ NewTensor(TensorData(lazydata[t], device(t), NewId), "False", NoCtx, NoGrad)
  /\ last' = Call("detach", "")
  /\ Idle
  /\ UNCHANGED <<no_grad, calls>>

\* self.grad.to(device) = Tensor(self.grad.lazydata, device): requires_grad defaults to None
gradTo(g, d) == [g EXCEPT !.device = d, !.requires_grad = "None", !.ctx = "none"]

\* self.to(d)
To(t, d) ==
  /\ pc = "idle"
  /\ NewTensor(TensorData(lazydata[t], d, NewId), "None", NoCtx,
               IF grad[t].set THEN gradTo(grad[t], d) ELSE NoGrad)
  /\ last' = Call("to", "")
  /\ Idle
  /\ UNCHANGED <<no_grad, calls>>

\* ---- gradient tensors ----

\* Tensor(data, device=dev, requires_grad=rg) holding a gradient: val is its value
\* when every backward rule passes its argument on, terms the contributions
\* <<child, slot>> summed in it (<<0, 0>> is the seed).
GradTensor(shp, dev, rg, val, terms) ==
  [set |-> TRUE, requires_grad |-> rg, ctx |-> "none",
   shape |-> shp, device |-> dev, val |-> val, terms |-> terms]

\* Tensor(1, device=self.device, requires_grad=False)
seed(t) == GradTensor(Scalar, device(t), "False", 1, SetToBag({<<0, 0>>}))

\* requires_grad of fxn.apply(x.reshape(..).expand(..), y.reshape(..).expand(..))
broadcastedRequiresGrad(xrg, yrg) ==
  LET bx == ctxRequiresGrad(<<ctxRequiresGrad(<<xrg>>)>>)
      by == ctxRequiresGrad(<<ctxRequiresGrad(<<yrg>>)>>)
  IN ctxRequiresGrad(<<bx, by>>)

\* a mutant: the new gradient replaces the old one
addKeepingLast(a, b) == b

\* t.grad + g: Tensor.__add__ -> _broadcasted(mlops.Add, g) -> Function.apply
add(a, b) ==
  LET rg == broadcastedRequiresGrad(a.requires_grad, b.requires_grad)
      c  == [NoCtx EXCEPT !.state = "set", !.requires_grad = rg]
  IN [set |-> TRUE, requires_grad |-> rg, ctx |-> attachCtx(c).state,
      shape |-> a.shape, device |-> a.device,
      val |-> a.val + b.val, terms |-> a.terms (+) b.terms]

\* ---- Tensor.deepwalk ----

NoWalk == [visited |-> {}, nodes |-> << >>, err |-> FALSE]

RECURSIVE _deepwalk(_, _)
RECURSIVE walkParents(_, _, _)
\* _deepwalk(node, visited, nodes); err: reading node._ctx raised AttributeError
_deepwalk(node, w) ==
  LET w1 == [w EXCEPT !.visited = @ \cup {node}]
  IN IF ctx[node].state = "deleted" THEN [w1 EXCEPT !.err = TRUE]
     ELSE IF ctx[node].state = "set"
     THEN LET w2 == walkParents(ctx[node].parents, 1, w1)
          IN IF w2.err THEN w2 ELSE [w2 EXCEPT !.nodes = Append(@, node)]
     ELSE w1
\* for i in node._ctx.parents: if i not in visited: _deepwalk(i, visited, nodes)
walkParents(parents, k, w) ==
  IF k > Len(parents) \/ w.err THEN w
  ELSE walkParents(parents, k + 1,
         IF parents[k] \notin w.visited THEN _deepwalk(parents[k], w) ELSE w)

deepwalk(t) == _deepwalk(t, NoWalk)

\* a mutant: the walk is processed in the order deepwalk returns it
walkOrderNotReversed(t) == deepwalk(t).nodes

\* reversed(self.deepwalk())
walkOrder(t) == Reverse(deepwalk(t).nodes)

\* ---- Tensor.backward ----

ErrScalar == "AssertionError: backward can only be called for scalar tensors"
ErrAttr   == "AttributeError: _ctx"
ErrNoGrad == "AssertionError: t0.grad is not None"
ErrRule   == "RuntimeError: backward not implemented"
ErrShape  == "AssertionError: grad shape must match tensor shape"

\* a mutant: the seed is stored before the shape is checked
seedBeforeCheck(t) == [grad EXCEPT ![t] = seed(t)]

\* grad when backward on a non-scalar tensor has raised
gradAfterRefusal(t) == grad

\* backward(self = t), up to the first iteration of the loop
Backward(t) ==
  /\ pc = "idle"
  /\ calls' = calls + 1
  /\ root' = t
  /\ entry' = [ctx |-> ctx, grad |-> grad]
  /\ absent' = {}
  /\ IF shape(t) # Scalar
       THEN /\ grad' = gradAfterRefusal(t)
            /\ last' = Call("backward", ErrScalar)
            /\ pc' = "idle" /\ todo' = << >>
       ELSE /\ grad' = [grad EXCEPT ![t] = seed(t)]
            /\ IF deepwalk(t).err
                 THEN /\ last' = Call("backward", ErrAttr)
                      /\ pc' = "idle" /\ todo' = << >>
                 ELSE /\ last' = Call("backward", "")
                      /\ todo' = walkOrder(t)
                      /\ pc' = IF walkOrder(t) = << >> THEN "idle" ELSE "loop"
  /\ UNCHANGED <<lazydata, requires_grad, ctx, no_grad, input, output>>

t0 == Head(todo)

\* any(x.requires_grad for x in t0._ctx.parents)
anyParentRequiresGrad(t) ==
  \E i \in DOMAIN ctx[t].parents : Truthy(requires_grad[ctx[t].parents[i]])

\* the loop goes on with the next node, or backward returns
Continue ==
  /\ todo' = Tail(todo)
  /\ pc' = IF Tail(todo) = << >> THEN "idle" ELSE "loop"
  /\ UNCHANGED <<root, entry, last, input, output>>

\* an exception leaves the loop: todo keeps the node it was raised at
Raise(e) ==
  /\ pc' = "idle"
  /\ last' = Call("backward", e)
  /\ UNCHANGED <<root, entry, todo, input, output>>

\* a mutant: a pruned context is kept
ctxAfterPruneKept(t) == ctx

\* del t0._ctx, on the pruning path
ctxAfterPrune(t) == [ctx EXCEPT ![t] = DeletedCtx]

\* del t0._ctx, after the gradients were distributed
ctxAfterBackward(t) == [ctx EXCEPT ![t] = DeletedCtx]

\* a mutant: del t0._ctx runs even when the iteration raises
ctxAfterRaiseDeleted(t) == [ctx EXCEPT ![t] = DeletedCtx]

\* an exception skips del t0._ctx
ctxAfterRaise(t) == ctx

\* one iteration: no parent requires gradients, the context is dropped
BackwardPrune ==
  /\ pc = "loop"
  /\ ~anyParentRequiresGrad(t0)
  /\ ctx' = ctxAfterPrune(t0)
  /\ Continue
  /\ UNCHANGED <<lazydata, requires_grad, grad, no_grad, absent, calls>>

\* one iteration: assert (t0.grad is not None) fails
BackwardNoGrad ==
  /\ pc = "loop"
  /\ anyParentRequiresGrad(t0)
  /\ ~grad[t0].set
  /\ ctx' = ctxAfterRaise(t0)
  /\ Raise(ErrNoGrad)
  /\ UNCHANGED <<lazydata, requires_grad, grad, no_grad, absent, calls>>

\* one iteration: t0._ctx.backward raises
BackwardRaise ==
  /\ pc = "loop"
  /\ anyParentRequiresGrad(t0)
  /\ grad[t0].set
  /\ ctx' = ctxAfterRaise(t0)
  /\ Raise(ErrRule)
  /\ UNCHANGED <<lazydata, requires_grad, grad, no_grad, absent, calls>>

\* what a backward rule returns for one parent: None, or a buffer of some shape
RuleOutputs == {[none |-> TRUE, shape |-> Scalar]} \cup
               {[none |-> FALSE, shape |-> s] : s \in Shapes}

Tuples(S, a) == IF a = 1 THEN {<<x>> : x \in S} ELSE {<<x, y>> : x \in S, y \in S}

\* Tensor(g, device=self.device, requires_grad=False) for the gradient of slot k
ruleGrad(t, k, g) ==
  GradTensor(g.shape, device(root), "False", grad[t].val, SetToBag({<<t, k>>}))

\* a mutant: a parent is written to whatever its requires_grad says
takesGradAlways(t, g) == ~g.none

\* if g is not None and t.requires_grad
takesGrad(t, g) == ~g.none /\ Truthy(requires_grad[t])

\* a mutant: the shape of a gradient is not checked
gradShapeUnchecked(g, p) == TRUE

\* assert g.shape == t.shape
gradShapeMatches(g, p) == g.shape = shape(p)

RECURSIVE distribute(_, _, _, _)
\* for t, g in zip(t0._ctx.parents, grads), from slot k on; G is grad so far
distribute(t, grads, k, G) ==
  IF k > Len(grads) THEN [grad |-> G, err |-> FALSE]
  ELSE LET p == ctx[t].parents[k]
           g == ruleGrad(t, k, grads[k])
       IN IF takesGrad(p, grads[k])
            THEN IF ~gradShapeMatches(g, p) THEN [grad |-> G, err |-> TRUE]
                 ELSE distribute(t, grads, k + 1,
                        [G EXCEPT ![p] = IF ~G[p].set THEN g ELSE add(G[p], g)])
            ELSE distribute(t, grads, k + 1, G)

\* one iteration: the rule returns grads, which are distributed to the parents
BackwardDistribute(grads) ==
  /\ pc = "loop"
  /\ anyParentRequiresGrad(t0)
  /\ grad[t0].set
  /\ Len(grads) = Len(ctx[t0].parents)
  /\ absent' = absent \cup {<<t0, k>> : k \in {j \in DOMAIN grads : grads[j].none}}
  /\ LET d == distribute(t0, grads, 1, grad)
     IN /\ grad' = d.grad
        /\ IF d.err THEN ctx' = ctxAfterRaise(t0) /\ Raise(ErrShape)
                    ELSE ctx' = ctxAfterBackward(t0) /\ Continue
  /\ UNCHANGED <<lazydata, requires_grad, no_grad, calls>>

\* ---- the specification ----

\* no shape-level call is under way
NoCall == [op |-> ""]

\* no tensor exists, no backward is running
InitGraph ==
  /\ lazydata = << >> /\ requires_grad = << >> /\ ctx = << >> /\ grad = << >>
  /\ no_grad = FALSE
  /\ pc = "idle" /\ root = 0 /\ todo = << >> /\ entry = NoEntry /\ absent = {}
  /\ calls = 0
  /\ last = Call("", "")

Init ==
  /\ InitGraph
  /\ input = NoCall /\ output = NoCall

\* The autograd engine on scalar CPU tensors whose requires_grad is left as
\* constructed: graphs of up to MaxNodes tensors, backward rules that return a
\* gradient, None or a buffer of the wrong shape, or raise.  A context is only
\* attached when a parent requires gradients, so no loop iteration prunes here.
NextGraph ==
  \/ Len(ctx) < MaxNodes /\ \E r \in Tri : NewLeaf(Scalar, "CPU", r)
  \/ \E b \in BOOLEAN : SetNoGrad(b)
  \/ Len(ctx) < MaxNodes /\ \E a \in Arities : \E x \in Tuples(Nodes, a) : Apply(x, Scalar)
  \/ calls < MaxBackward /\ \E t \in Nodes : Backward(t)
  \/ BackwardNoGrad
  \/ BackwardRaise
  \/ \E a \in Arities : \E grads \in Tuples(RuleOutputs, a) : BackwardDistribute(grads)

SpecGraph == Init /\ [][NextGraph]_vars

\* The same engine with callers that rewrite requires_grad between calls, on
\* graphs of up to MaxFlagNodes tensors.
NextFlags ==
  \/ Len(ctx) < MaxFlagNodes /\ \E r \in Tri : NewLeaf(Scalar, "CPU", r)
  \/ \E b \in BOOLEAN : SetNoGrad(b)
  \/ \E t \in Nodes : \E r \in Tri : SetRequiresGrad(t, r)
  \/ Len(ctx) < MaxFlagNodes /\ \E a \in Arities : \E x \in Tuples(Nodes, a) : Apply(x, Scalar)
  \/ calls < MaxBackward /\ \E t \in Nodes : Backward(t)
  \/ BackwardPrune
  \/ BackwardNoGrad
  \/ BackwardRaise
  \/ \E a \in Arities : \E grads \in Tuples(RuleOutputs, a) : BackwardDistribute(grads)

SpecFlags == Init /\ [][NextFlags]_vars

\* Tensors of both shapes on both devices, with assign, detach and to, on up to
\* MaxDataNodes tensors; operations have one parent, and requires_grad is left
\* as constructed (so no loop iteration prunes).
NextData ==
  \/ Len(ctx) < MaxDataNodes /\ \E s \in Shapes, d \in Devices, r \in Tri : NewLeaf(s, d, r)
  \/ Len(ctx) < MaxDataNodes /\ \E x \in Tuples(Nodes, 1) : \E out \in Shapes : Apply(x, out)
  \/ \E t \in Nodes : \E x \in Nodes \cup {0} : \E s \in Shapes : Assign(t, x, s)
  \/ Len(ctx) < MaxDataNodes /\ \E t \in Nodes : Detach(t)
  \/ Len(ctx) < MaxDataNodes /\ \E t \in Nodes : \E d \in Devices : To(t, d)
  \/ calls < MaxDataBackward /\ \E t \in Nodes : Backward(t)
  \/ BackwardNoGrad
  \/ BackwardRaise
  \/ \E grads \in Tuples(RuleOutputs, 1) : BackwardDistribute(grads)

SpecData == Init /\ [][NextData]_vars

\* ---- tensors with contents, and the movement operations ----

\* A tensor with contents: its shape and its elements by index tuple (0-based).
RECURSIVE prod(_)
prod(shp) == IF shp = << >> THEN 1 ELSE Head(shp) * prod(Tail(shp))

Indices(shp) ==
  IF shp = << >> THEN {<< >>}
  ELSE LET m == CHOOSE m \in Range(shp) : \A x \in Range(shp) : x <= m
       IN {idx \in [1..Len(shp) -> 0..(m - 1)] : \A k \in 1..Len(shp) : idx[k] < shp[k]}

MkTensor(shp, at) == [shape |-> shp, at |-> at]

\* the row-major position of idx in a buffer of shape shp, and back
RECURSIVE ravel(_, _, _)
ravel(idx, shp, k) ==
  IF k > Len(shp) THEN 0
  ELSE idx[k] * prod(SubSeq(shp, k + 1, Len(shp))) + ravel(idx, shp, k + 1)

unravel(n, shp) ==
  [k \in 1..Len(shp) |-> (n \div prod(SubSeq(shp, k + 1, Len(shp)))) % shp[k]]

\* mlops.Pad: arg[k] = <<before, after>>, zero-filled margins
padOp(x, arg) ==
  LET shp == [k \in 1..Len(x.shape) |-> x.shape[k] + arg[k][1] + arg[k][2]]
  IN MkTensor(shp, [idx \in Indices(shp) |->
       IF \A k \in 1..Len(shp) : idx[k] - arg[k][1] \in 0..(x.shape[k] - 1)
         THEN x.at[[k \in 1..Len(shp) |-> idx[k] - arg[k][1]]]
         ELSE 0])

\* mlops.Shrink: arg[k] = <<start, end>>, the sub-range [start, end) of every axis
shrinkOp(x, arg) ==
  LET shp == [k \in 1..Len(x.shape) |-> arg[k][2] - arg[k][1]]
  IN MkTensor(shp, [idx \in Indices(shp) |->
       x.at[[k \in 1..Len(shp) |-> idx[k] + arg[k][1]]]])

\* mlops.Flip: the axes of the set axis are reversed
flipOp(x, axis) ==
  MkTensor(x.shape, [idx \in Indices(x.shape) |->
    x.at[[k \in 1..Len(x.shape) |->
            IF k \in axis THEN x.shape[k] - 1 - idx[k] ELSE idx[k]]]])

\* mlops.Reshape: the same buffer, row-major, under a new shape
reshapeOp(x, shp) ==
  MkTensor(shp, [idx \in Indices(shp) |-> x.at[unravel(ravel(idx, shp, 1), x.shape)]])

\* Tensor.pad and Tensor.shrink return self when the argument changes nothing
pad(x, arg) ==
  IF \E k \in 1..Len(arg) : arg[k] # <<0, 0>> THEN padOp(x, arg) ELSE x

shrink(x, arg) ==
  IF \E k \in 1..Len(arg) : arg[k] # <<0, x.shape[k]>> THEN shrinkOp(x, arg) ELSE x

\* ---- Tensor.__getitem__ on a one-dimensional tensor ----

\* a Python value that may be None
PyNone == [none |-> TRUE, v |-> 0]
Some(v) == [none |-> FALSE, v |-> v]

Max(a, b) == IF a >= b THEN a ELSE b
Min(a, b) == IF a <= b THEN a ELSE b
Abs(a) == IF a < 0 THEN -a ELSE a

\* slice(i, j, k).indices(dim_sz) of Python: <<start, stop, step>>
sliceIndices(sl, dim_sz) ==
  LET step  == IF sl.step.none THEN 1 ELSE sl.step.v
      lower == IF step < 0 THEN -1 ELSE 0
      upper == IF step < 0 THEN dim_sz - 1 ELSE dim_sz
      clamp(e) == IF e < 0 THEN Max(e + dim_sz, lower) ELSE Min(e, upper)
      start == IF sl.start.none THEN (IF step < 0 THEN upper ELSE lower) ELSE clamp(sl.start.v)
      stop  == IF sl.stop.none THEN (IF step < 0 THEN lower ELSE upper) ELSE clamp(sl.stop.v)
  IN <<start, stop, step>>

\* (s, e) if st > 0 else (e+1, s+1)
newSlice(s, e, st) == IF st > 0 THEN <<s, e>> ELSE <<e + 1, s + 1>>

\* a mutant: a whole stride of zeros is added when the length is a multiple of the step
num_zerosAlways(step, dim_sz) == IF step = 1 THEN 0 ELSE step - (dim_sz % step)

\* 0 if step == 1 or (y := dim_sz % step) == 0 else (step - y)
num_zeros(step, dim_sz) ==
  IF step = 1 \/ dim_sz % step = 0 THEN 0 ELSE step - (dim_sz % step)

Failed(e) == [err |-> e, shape |-> << >>, data |-> << >>]

\* the elements of a one-dimensional tensor, in order
Elements(x) == [i \in 1..x.shape[1] |-> x.at[<<i - 1>>]]

Returned(x) == [err |-> "", shape |-> x.shape, data |-> Elements(x)]

\* self[sl] for a one-dimensional self and a slice sl
getitem(self, sl) ==
  LET dim_sz    == self.shape[1]
      y         == sliceIndices(sl, dim_sz)
      new_slice == newSlice(y[1], y[2], y[3])
      new_shape == new_slice[2] - new_slice[1]
  IN IF new_shape <= 0 THEN Failed("empty slice")
     ELSE
     LET shrunk  == shrink(self, <<new_slice>>)
         flipped == IF y[3] < 0 THEN flipOp(shrunk, {1}) ELSE shrunk
     IN IF y[3] > 1 \/ y[3] < 0
          THEN LET stride   == Abs(y[3])
                   padded   == pad(flipped, << <<0, num_zeros(stride, flipped.shape[1])>> >>)
                   rows     == padded.shape[1] \div stride
                   reshaped == reshapeOp(padded, <<rows, stride>>)
                   sliced   == shrink(reshaped, << <<0, rows>>, <<0, 1>> >>)
               IN Returned(reshapeOp(sliced, <<rows>>))
          ELSE Returned(reshapeOp(flipped, <<new_shape>>))

\* ---- the one-dimensional slices self[i:j:k] ----

MaxLen == 10    \* length of the sliced tensor
MaxStep == 3    \* |k|

\* a tensor of length n whose element at index i is i + 1 (no element is zero)
Arange(n) == MkTensor(<<n>>, [idx \in Indices(<<n>>) |-> idx[1] + 1])

SliceBounds == {PyNone} \cup {Some(v) : v \in (0 - MaxLen - 1)..(MaxLen + 1)}
SliceSteps == {PyNone} \cup {Some(v) : v \in ((0 - MaxStep)..MaxStep) \ {0}}

InitSlice ==
  /\ InitGraph
  /\ input \in [op : {"getitem"}, n : 1..MaxLen,
                sl : [start : SliceBounds, stop : SliceBounds, step : SliceSteps]]
  /\ output = NoCall

\* Tensor.arange(n)[i:j:k]
GetItem ==
  /\ input.op = "getitem" /\ output.op = ""
  /\ output' = [op |-> "getitem", ret |-> getitem(Arange(input.n), input.sl)]
  /\ UNCHANGED <<input, graphVars>>

NextSlice == GetItem

SpecSlice == InitSlice /\ [][NextSlice]_vars

\* ---- Tensor.slice and Tensor.cat ----

\* mlops.Add on two tensors of the same shape
addOp(x, y) == MkTensor(x.shape, [idx \in Indices(x.shape) |-> x.at[idx] + y.at[idx]])

\* self.slice(arg): arg[k] = <<start, end>>, which may reach outside the axis
slice(x, arg) ==
  LET padding == [k \in 1..Len(arg) |->
                    <<Max(0, 0 - arg[k][1]), Max(0, arg[k][2] - x.shape[k])>>]
  IN shrink(pad(x, padding),
            [k \in 1..Len(arg) |-> <<arg[k][1] + padding[k][1], arg[k][2] + padding[k][1]>>])

\* [0, *itertools.accumulate(sizes)][j]: the sizes before operand j, summed
RECURSIVE shape_cumsum(_, _)
shape_cumsum(sizes, j) == IF j <= 1 THEN 0 ELSE shape_cumsum(sizes, j - 1) + sizes[j - 1]

\* a mutant: every operand is embedded at offset 0
catSliceNoOffset(k, total) == <<0, total>>

\* s[dim] = (-k, shape_cumsum[-1]-k)
catSlice(k, total) == <<0 - k, total - k>>

RECURSIVE reduceAdd(_, _)
\* functools.reduce(Tensor.__add__, xs), from xs[1] up to xs[n]
reduceAdd(xs, n) == IF n = 1 THEN xs[1] ELSE addOp(reduceAdd(xs, n - 1), xs[n])

CatFailed(e) == [err |-> e, shape |-> << >>, at |-> << >>, embedded |-> << >>]

\* catargs[1].cat(*Tail(catargs), dim=dim0); embedded are the operands after arg.slice(s)
cat(catargs, dim0) ==
  LET self == catargs[1]
      rank == Len(self.shape)
      dim  == IF dim0 < 0 THEN dim0 + rank ELSE dim0
  IN IF \E j \in 2..Len(catargs) :
          ~ ( /\ Len(catargs[j].shape) = rank
              /\ \A i \in 0..(rank - 1) : i # dim => catargs[j].shape[i + 1] = self.shape[i + 1] )
       THEN CatFailed("AssertionError")
     ELSE IF \E j \in 1..Len(catargs) : Len(catargs[j].shape) = 0
       THEN CatFailed("AssertionError: zero-dimensional tensor cannot be concatenated")
     ELSE
       LET sizes == [j \in 1..Len(catargs) |-> catargs[j].shape[dim + 1]]
           total == shape_cumsum(sizes, Len(catargs) + 1)
           slc(j) == [i \in 1..rank |->
                        IF i = dim + 1 THEN catSlice(shape_cumsum(sizes, j), total)
                                       ELSE <<0, self.shape[i]>>]
           embedded == [j \in 1..Len(catargs) |-> slice(catargs[j], slc(j))]
           ret == reduceAdd(embedded, Len(catargs))
       IN [err |-> "", shape |-> ret.shape, at |-> ret.at, embedded |-> embedded]

MaxCat == 3     \* operands of one cat
MaxRank == 2    \* rank of an operand
MaxSize == 2    \* size of an axis

CatShapes == UNION {[1..r -> 1..MaxSize] : r \in 0..MaxRank}

\* operand j of a cat: a tensor of shape shp with distinct non-zero elements
Operand(j, shp) == MkTensor(shp, [idx \in Indices(shp) |-> 100 * j + ravel(idx, shp, 1) + 1])

Operands(shapes) == [j \in 1..Len(shapes) |-> Operand(j, shapes[j])]

\* the axes d that name an axis of a tensor of rank r (0 for a zero-dimensional one)
Axes(r) == IF r = 0 THEN {0} ELSE (0 - r)..(r - 1)

InitCat ==
  /\ InitGraph
  /\ \E n \in 1..MaxCat :
       input \in {c \in [op : {"cat"}, shapes : [1..n -> CatShapes],
                         dim : (0 - MaxRank)..(MaxRank - 1)] :
                    c.dim \in Axes(Len(c.shapes[1]))}
  /\ output = NoCall

\* Tensor.cat(*operands, dim=d)
Cat ==
  /\ input.op = "cat" /\ output.op = ""
  /\ output' = [op |-> "cat", ret |-> cat(Operands(input.shapes), input.dim)]
  /\ UNCHANGED <<input, graphVars>>

NextCat == Cat

SpecCat == InitCat /\ [][NextCat]_vars

\* ---- Tensor._pool, on shapes ----

RECURSIVE flatten(_)
\* helpers.flatten: the tuples of a sequence, concatenated
flatten(l) == IF l = << >> THEN << >> ELSE Head(l) \o flatten(Tail(l))

\* the shape self.slice(arg) returns
sliceShape(arg) == [j \in 1..Len(arg) |-> arg[j][2] - arg[j][1]]

\* the shape self.permute(order) returns
permuteShape(shp, order) == [j \in 1..Len(order) |-> shp[order[j] + 1]]

\* (i+(s-k))//s
fastOut(i, s, k) == (i + (s - k)) \div s

\* a mutant: the kernel's extent is not taken off the input length
generalOutNoKernel(i, d, k, s) == (i - 1) \div s + 1

\* (i - d * (k-1) - 1)//s + 1
generalOut(i, d, k, s) == (i - d * (k - 1) - 1) \div s + 1

\* math.ceil(k*(i+d) / i)
expandFactor(k, i, d) == (k * (i + d) + (i - 1)) \div i

Ones(n) == [j \in 1..n |-> 1]

PoolFailed(e) == [err |-> e, shape |-> << >>, reshapes |-> << >>]

\* what _pool returns: the shape of the result and, for every reshape made on
\* the way, <<shape before, shape asked for>>
PoolReturned(shp, reshapes) ==
  IF \E r \in Range(reshapes) : \E z \in Range(r[2]) : z <= 0
    THEN PoolFailed("AssertionError: zeros not allowed in shape")
    ELSE [err |-> "", shape |-> shp, reshapes |-> reshapes]

\* self._pool(k_, s_, d_, _insert_dims) for self of shape prefix \o i_
pool(prefix0, i_, k_, s_, d_, insert_dims) ==
  LET n  == Len(k_)
      ax == 1..n
      slc(shp) == [j \in 1..Len(shp) |-> <<0, shp[j]>>]
      self == prefix0 \o i_
  IN IF (\E j \in ax : k_[j] > s_[j]) \/ (\E j \in ax : d_[j] # 1)
       THEN
         LET o_ == [j \in ax |-> generalOut(i_[j], d_[j], k_[j], s_[j])]
             e_ == [j \in ax |-> expandFactor(k_[j], i_[j], d_[j])]
             r1 == prefix0 \o Ones(Len(insert_dims)) \o flatten([j \in ax |-> <<1, i_[j]>>])
             x1 == prefix0 \o insert_dims \o flatten([j \in ax |-> <<e_[j], i_[j]>>])
             r2 == prefix0 \o insert_dims \o [j \in ax |-> e_[j] * i_[j]]
             prefix == prefix0 \o insert_dims
             lp == Len(prefix)
             s1 == sliceShape(slc(prefix) \o [j \in ax |-> <<0, k_[j] * (i_[j] + d_[j])>>])
             r3 == prefix \o flatten([j \in ax |-> <<k_[j], i_[j] + d_[j]>>])
             s2 == sliceShape(slc(prefix) \o
                     flatten([j \in ax |-> << <<0, k_[j]>>, <<0, o_[j] * s_[j]>> >>]))
             r4 == prefix \o flatten([j \in ax |-> <<k_[j], o_[j], s_[j]>>])
             s3 == sliceShape(slc(prefix) \o
                     flatten([j \in ax |-> << <<0, k_[j]>>, <<0, o_[j]>>, <<0, 1>> >>]))
             r5 == prefix \o flatten([j \in ax |-> <<k_[j], o_[j]>>])
             order == [j \in 1..lp |-> j - 1] \o [j \in ax |-> lp + (j - 1) * 2 + 1]
                        \o [j \in ax |-> lp + (j - 1) * 2]
         IN PoolReturned(permuteShape(r5, order),
                         << <<self, r1>>, <<x1, r2>>, <<s1, r3>>, <<s2, r4>>, <<s3, r5>> >>)
       ELSE
         LET o_ == [j \in ax |-> fastOut(i_[j], s_[j], k_[j])]
             s1 == sliceShape(slc(prefix0) \o [j \in ax |-> <<0, o_[j] * s_[j]>>])
             r1 == prefix0 \o Ones(Len(insert_dims)) \o flatten([j \in ax |-> <<o_[j], s_[j]>>])
             prefix == prefix0 \o insert_dims
             lp == Len(prefix)
             s2 == sliceShape(slc(prefix) \o
                     flatten([j \in ax |-> << <<0, o_[j]>>, <<0, k_[j]>> >>]))
             order == [j \in 1..lp |-> j - 1] \o [j \in ax |-> lp + (j - 1) * 2]
                        \o [j \in ax |-> lp + (j - 1) * 2 + 1]
         IN PoolReturned(permuteShape(s2, order), << <<s1, r1>> >>)

MaxIn == 4        \* length of a pooled axis, and of a kernel
MaxStride == 3    \* stride of a pooled axis
MaxDilation == 2  \* dilation of a pooled axis
MaxPooled == 2    \* pooled axes

InitPool ==
  /\ InitGraph
  /\ \E n \in 1..MaxPooled :
       input \in [op : {"pool"}, prefix : {<< >>, <<2>>}, insert_dims : {<< >>, <<3>>},
                  i : [1..n -> 1..MaxIn], k : [1..n -> 1..MaxIn],
                  s : [1..n -> 1..MaxStride], d : [1..n -> 1..MaxDilation]]
  /\ output = NoCall

\* Tensor._pool(k_, stride, dilation, _insert_dims)
Pool ==
  /\ input.op = "pool" /\ output.op = ""
  /\ output' = [op |-> "pool",
                ret |-> pool(input.prefix, input.i, input.k, input.s, input.d, input.insert_dims)]
  /\ UNCHANGED <<input, graphVars>>

NextPool == Pool

SpecPool == InitPool /\ [][NextPool]_vars

\* ---- Tensor._broadcasted, on shapes ----

\* an operand of a binary operation: a Tensor, or a raw Python number
RawOperand == [raw |-> TRUE, shape |-> << >>, requires_grad |-> "None", ctx |-> "none"]
TensorOperand(shp, rg, c) == [raw |-> FALSE, shape |-> shp, requires_grad |-> rg, ctx |-> c]

\* Tensor(t, device=self.device, requires_grad=False) if not isinstance(t, Tensor) else t
promote(t) == IF t.raw THEN TensorOperand(<< >>, "False", NoCtx.state) ELSE t

\* a mutant: the missing axes are added on the right
rightPad(shp, rank) == shp \o Ones(rank - Len(shp))

\* [1]*(max(len(x.shape), len(y.shape))-len(t.shape)) + list(t.shape)
leftPad(shp, rank) == Ones(rank - Len(shp)) \o shp

\* tuple(max(sx, sy) for sx,sy in zip(x.shape, y.shape))
shape_ret(xs, ys) == [j \in 1..Len(xs) |-> Max(xs[j], ys[j])]

\* mlops.Expand is legal from size 1 to any size and from a size to itself
expandLegal(shp, new) == \A j \in 1..Len(shp) : shp[j] = 1 \/ shp[j] = new[j]

\* self._broadcasted(fxn, other, reverse): the shape of the result, and the
\* operands x, y after promotion
broadcasted(self, other, reverse) ==
  LET x    == promote(IF reverse THEN other ELSE self)
      y    == promote(IF reverse THEN self ELSE other)
      rank == Max(Len(x.shape), Len(y.shape))
      xs   == leftPad(x.shape, rank)
      ys   == leftPad(y.shape, rank)
      ret  == shape_ret(xs, ys)
  IN [err |-> IF expandLegal(xs, ret) /\ expandLegal(ys, ret) THEN "" ELSE "shape error in expand",
      shape |-> ret, x |-> x, y |-> y]

MaxBroadcast == 4   \* size of an axis of a broadcast operand

BroadcastShapes == UNION {[1..r -> 1..MaxBroadcast] : r \in 0..MaxRank}

InitBroadcast ==
  /\ InitGraph
  /\ input \in [op : {"broadcasted"},
                self : {TensorOperand(shp, "True", "none") : shp \in BroadcastShapes},
                other : {RawOperand} \cup
                        {TensorOperand(shp, "None", "none") : shp \in BroadcastShapes},
                reverse : BOOLEAN]
  /\ output = NoCall

\* self._broadcasted(fxn, other, reverse)
Broadcasted ==
  /\ input.op = "broadcasted" /\ output.op = ""
  /\ output' = [op |-> "broadcasted", ret |-> broadcasted(input.self, input.other, input.reverse)]
  /\ UNCHANGED <<input, graphVars>>

NextBroadcast == Broadcasted

SpecBroadcast == InitBroadcast /\ [][NextBroadcast]_vars

\* ---- what the claims speak of ----

\* the nodes reachable from the nodes of S through the context-parent links of C
RECURSIVE reachable(_, _)
reachable(C, S) ==
  LET S2 == S \cup UNION {Range(C[n].parents) : n \in S}
  IN IF S2 = S THEN S ELSE reachable(C, S2)

\* the nodes reachable from the root when backward was entered, and those of
\* them that carried a context then
EntryReach == reachable(entry.ctx, {root})
EntryWalk == {n \in EntryReach : entry.ctx[n].state = "set"}

\* backward has returned normally
Completed == last.op = "backward" /\ pc = "idle" /\ last.err = ""

\* backward has raised inside its loop, at Head(todo)
FailedInLoop == last.op = "backward" /\ pc = "idle" /\ last.err \in {ErrRule, ErrShape}

\* the <<child, slot>> edges into n of the graph backward walked
EntryEdges(n) ==
  {e \in EntryWalk \X Arities :
     e[2] \in DOMAIN entry.ctx[e[1]].parents /\ entry.ctx[e[1]].parents[e[2]] = n}

termsOf(g) == IF g.set THEN g.terms ELSE EmptyBag

\* C1: in every step of the loop in which the backward rule of a node t0 is
\* invoked, no node that was reachable from the root and still carries its
\* context (is not yet processed) holds t0 as a parent; and no step of the
\* loop changes the gradient of a node whose context this pass has dropped.
C1_FinalizedBeforeRule ==
  [][pc = "loop" =>
       /\ (anyParentRequiresGrad(t0) /\ grad[t0].set) =>
            \A c \in EntryWalk : ctx[c].state = "set" => t0 \notin Range(ctx[c].parents)
       /\ \A n \in EntryWalk : ctx[n].state = "deleted" => grad'[n] = grad[n]]_vars

\* C1 witness: a node with two children on different paths from the root is
\* about to run its rule, its gradient holding both contributions.
C1_Witness ==
  /\ pc = "loop" /\ anyParentRequiresGrad(t0) /\ grad[t0].set
  /\ \E c1, c2 \in EntryWalk :
       /\ c1 # c2 /\ c1 # root
       /\ t0 \in Range(entry.ctx[c1].parents) /\ t0 \in Range(entry.ctx[c2].parents)
       /\ BagCardinality(grad[t0].terms) = 2

\* C2 as stated, read in its favour (only nodes reachable from the root, only
\* passes in which every rule returned a gradient for every parent): after
\* backward the gradient of every node that requires gradients is exactly the
\* sum of one contribution per edge into it (the root's is the seed).
C2_Original ==
  (Completed /\ absent = {}) =>
    \A n \in EntryReach : Truthy(requires_grad[n]) =>
      termsOf(grad[n]) = IF n = root THEN SetToBag({<<0, 0>>})
                                     ELSE SetToBag(EntryEdges(n))

\* C2 amended: after backward the root's gradient is the seed, and every
\* other node's gradient is the gradient it held before the pass plus one
\* contribution per edge into it for which the parent requires gradients and
\* the rule returned a gradient; a node without such an edge keeps its gradient.
C2_Accumulates ==
  Completed =>
    \A n \in Nodes :
      IF n = root THEN grad[n] = seed(n)
      ELSE LET E == {e \in EntryEdges(n) : Truthy(requires_grad[n]) /\ e \notin absent}
           IN IF E = {} THEN grad[n] = entry.grad[n]
              ELSE /\ grad[n].set
                   /\ grad[n].terms = termsOf(entry.grad[n]) (+) SetToBag(E)

\* C2 witness: y = x + x, backward from y: x.grad is 2, from the two slots of y.
C2_Witness ==
  /\ Completed
  /\ \E x \in Nodes :
       /\ entry.ctx[root].state = "set" /\ entry.ctx[root].parents = <<x, x>>
       /\ ~entry.grad[x].set
       /\ grad[x].val = 2
       /\ grad[x].terms = SetToBag({<<root, 1>>, <<root, 2>>})

\* the derived requires_grad of parents x, spelled out
Derived(x) ==
  IF \E i \in DOMAIN x : requires_grad[x[i]] = "True" THEN "True"
  ELSE IF \E i \in DOMAIN x : requires_grad[x[i]] = "None" THEN "None"
  ELSE "False"

\* C3: the result of Function.apply carries the new context iff the derived
\* requires_grad is true and Tensor.no_grad is off; otherwise it has no
\* context; its requires_grad is the derived value either way.
C3_AttachIff ==
  [][last'.op = "apply" =>
      \A a \in Arities : \A x \in Tuples(Nodes, a) : \A out \in Shapes :
       Apply(x, out) =>
         LET r == Len(ctx')
         IN /\ (ctx'[r].state = "set") <=> (Derived(x) = "True" /\ ~no_grad)
            /\ ctx'[r].state = "set" => ctx'[r].parents = x
            /\ ctx'[r].state # "set" => ctx'[r] = NoCtx
            /\ requires_grad'[r] = Derived(x)]_vars

\* C3 witness: an apply under no_grad whose derived requires_grad is true
\* returned a tensor that requires gradients and has no context.
C3_Witness ==
  /\ last.op = "apply" /\ no_grad
  /\ requires_grad[Len(ctx)] = "True" /\ ctx[Len(ctx)] = NoCtx

\* C4: the requires_grad a context derives is true if some parent's is true,
\* else unresolved if some parent's is unresolved, else false.
C4_DerivedRequiresGrad ==
  \A a \in Arities : \A x \in Tuples(Nodes, a) :
    LET d == Function(device(x[1]), x).requires_grad
        S == {requires_grad[x[i]] : i \in DOMAIN x}
    IN /\ "True" \in S => d = "True"
       /\ ("True" \notin S /\ "None" \in S) => d = "None"
       /\ S = {"False"} => d = "False"

\* C4 witness: parents with requires_grad None and False, and the tensor
\* applied to them came out unresolved.
C4_Witness ==
  /\ last.op = "apply" /\ Len(ctx) >= 3
  /\ requires_grad[1] = "None" /\ requires_grad[2] = "False"
  /\ requires_grad[Len(ctx)] = "None"

\* C7: when backward returns normally, no node that was reachable from the
\* root carries a context.
C7_ContextsDropped ==
  Completed => \A n \in EntryReach : ctx[n].state # "set"

\* C7 witness: backward returned after dropping at least two contexts, one of
\* them by pruning (its node never got a gradient).
C7_Witness ==
  /\ Completed
  /\ \E n, m \in EntryWalk : n # m /\ ~grad[m].set /\ ctx[m].state = "deleted"

\* C10 as stated: when backward fails in its loop, the nodes processed before
\* the failing node have no context, and neither has the failing node.
C10_Original ==
  FailedInLoop =>
    /\ \A n \in EntryWalk \ Range(todo) : ctx[n].state # "set"
    /\ ctx[Head(todo)].state # "set"

\* C10 amended: when backward fails in its loop, the nodes processed before
\* the failing node have no context; the failing node, and the nodes not yet
\* visited, keep theirs.
C10_FreedBeforeFailure ==
  FailedInLoop =>
    /\ \A n \in EntryWalk \ Range(todo) : ctx[n].state = "deleted"
    /\ \A n \in Range(todo) : ctx[n].state = "set" /\ ctx[n] = entry.ctx[n]

\* C10 witness: a failure after one node was processed and before another was visited.
C10_Witness ==
  /\ FailedInLoop
  /\ EntryWalk \ Range(todo) # {}
  /\ Len(todo) >= 2

\* C5: backward on a tensor whose shape is not () raises, and leaves every
\* gradient and every context as it found them.
C5_NonScalarRefused ==
  (last.op = "backward" /\ shape(root) # Scalar) =>
    /\ last.err = ErrScalar /\ pc = "idle"
    /\ grad = entry.grad /\ ctx = entry.ctx

\* C5 witness: backward was refused on a non-scalar tensor that carries a context.
C5_Witness ==
  /\ last.op = "backward" /\ last.err = ErrScalar
  /\ shape(root) # Scalar /\ ctx[root].state = "set" /\ ~grad[root].set

\* C6 as stated: every tensor stored as a gradient has requires_grad False
\* (not None) and no context.
C6_GradientsAreLeaves ==
  \A n \in Nodes :
    grad[n].set => grad[n].requires_grad = "False" /\ grad[n].ctx = "none"

\* the tensor and buffer an assign reads: x itself, or the temporary Tensor
\* wrapped around raw data of shape s (on the target's device, requires_grad None)
AssignedShape(t, x, s) == IF x = 0 THEN s ELSE shape(x)
AssignedDevice(t, x) == IF x = 0 THEN device(t) ELSE device(x)
AssignedRequiresGrad(x) == IF x = 0 THEN "None" ELSE requires_grad[x]

\* C8 as stated: after a successful assign the target has no context.
C8_Original ==
  [][last'.op = "assign" =>
      \A t \in Nodes : \A x \in Nodes \cup {0} : \A s \in Shapes :
        (Assign(t, x, s) /\ last'.err = "") => ctx'[t].state # "set"]_vars

\* C8 amended: assign leaves the context of its target as it was: a target
\* that carried a context still carries it after a successful assign, a
\* target without one still has none.
C8_AssignKeepsContext ==
  [][last'.op = "assign" =>
      \A t \in Nodes : \A x \in Nodes \cup {0} : \A s \in Shapes :
        Assign(t, x, s) => ctx'[t] = ctx[t]]_vars

\* C8 witness: a successful assign has replaced the buffer of a tensor that
\* carries a context.
C8_Witness ==
  /\ last.op = "assign" /\ last.err = ""
  /\ \E t \in Nodes : ctx[t].state = "set" /\ lazydata[t].id # t /\ device(t) # "DISK"

\* C9: assign to a tensor that is not on DISK raises when x's shape or device
\* differs from the target's or x.requires_grad is True, leaving the target's
\* buffer, gradient and context alone; when it returns, the target's buffer
\* is x's and its shape, gradient and requires_grad are what they were.
C9_AssignChecks ==
  [][last'.op = "assign" =>
      \A t \in Nodes : \A x \in Nodes \cup {0} : \A s \in Shapes :
        (Assign(t, x, s) /\ device(t) # "DISK") =>
          /\ ( \/ AssignedShape(t, x, s) # shape(t)
               \/ AssignedDevice(t, x) # device(t)
               \/ AssignedRequiresGrad(x) = "True" )
             => /\ last'.err # ""
                /\ lazydata'[t] = lazydata[t] /\ grad'[t] = grad[t] /\ ctx'[t] = ctx[t]
          /\ last'.err = ""
             => /\ IF x = 0 THEN lazydata'[t].id = 0 ELSE lazydata'[t] = lazydata[x]
                /\ lazydata'[t].shape = shape(t)
                /\ grad'[t] = grad[t] /\ requires_grad'[t] = requires_grad[t]]_vars

\* C9 witness: a successful assign gave a tensor that holds a gradient the
\* buffer of another tensor.
C9_Witness ==
  /\ last.op = "assign" /\ last.err = ""
  /\ \E t, x \in Nodes :
       /\ t # x /\ lazydata[t] = lazydata[x] /\ lazydata[t].id = x
       /\ device(t) # "DISK" /\ grad[t].set

\* C11: no node is reachable from itself through context-parent links.
C11_Acyclic ==
  \A n \in Nodes :
    ctx[n].state = "set" => n \notin reachable(ctx, Range(ctx[n].parents))

\* C11 witness: a chain x <- y <- z of contexts whose first node x was
\* assigned a new buffer after y was built from it.
C11_Witness ==
  \E x, y, z \in Nodes :
    /\ ctx[y].state = "set" /\ ctx[y].parents = <<x>>
    /\ ctx[z].state = "set" /\ ctx[z].parents = <<y>>
    /\ lazydata[x].id = 0

\* what Python's sequence slicing selects from range(n): the source indices
\* start, start + step, ... up to (not including) stop
PySelected(n, sl) ==
  LET y == sliceIndices(sl, n)
      M == {m \in 0..n : IF y[3] > 0 THEN y[1] + m * y[3] < y[2]
                                     ELSE y[1] + m * y[3] > y[2]}
  IN [i \in 1..Cardinality(M) |-> y[1] + (i - 1) * y[3]]

\* C12: for a one-dimensional tensor of length n and a slice i:j:k (k # 0)
\* that selects at least one element, __getitem__ returns the elements that
\* Python's slicing selects, in the same order.
C12_SliceMatchesPython ==
  (output.op = "getitem" /\ PySelected(input.n, input.sl) # << >>) =>
    /\ output.ret.err = ""
    /\ output.ret.data = [i \in DOMAIN PySelected(input.n, input.sl) |->
                            Arange(input.n).at[<<PySelected(input.n, input.sl)[i]>>]]

\* C12 witness: [8:2:-2] on length 10 returned the elements at indices 8, 6, 4.
C12_Witness ==
  /\ output.op = "getitem" /\ input.n = 10
  /\ input.sl = [start |-> Some(8), stop |-> Some(2), step |-> Some(-2)]
  /\ output.ret.data = <<9, 7, 5>>

\* the axis of a cat call, counted from 0
CatDim == IF input.dim < 0 THEN input.dim + Len(input.shapes[1]) ELSE input.dim

\* the operands of a cat call share their rank and every size but that of the axis
CatCompatible ==
  \A j \in DOMAIN input.shapes :
    /\ Len(input.shapes[j]) = Len(input.shapes[1])
    /\ \A i \in DOMAIN input.shapes[1] : i # CatDim + 1 => input.shapes[j][i] = input.shapes[1][i]

\* where operand j starts along the axis
CatOffset(j) == shape_cumsum([i \in DOMAIN input.shapes |-> input.shapes[i][CatDim + 1]], j)

\* C13: cat along axis d rejects operands of differing rank or non-d size
\* and zero-dimensional operands; otherwise the result has the summed size
\* along d and the other sizes unchanged, at every position exactly one
\* embedded operand is non-zero, and the result there is the element of the
\* operand whose offset range contains the position.
C13_CatConcatenates ==
  output.op = "cat" =>
    IF ~CatCompatible \/ Len(input.shapes[1]) = 0
      THEN output.ret.err # ""
      ELSE LET n == Len(input.shapes)
               d == CatDim + 1
           IN /\ output.ret.err = ""
              /\ output.ret.shape = [input.shapes[1] EXCEPT ![d] = CatOffset(n + 1)]
              /\ \A idx \in Indices(output.ret.shape) :
                   LET J == {j \in 1..n : idx[d] \in CatOffset(j)..(CatOffset(j + 1) - 1)}
                   IN /\ Cardinality(J) = 1
                      /\ {j \in 1..n : output.ret.embedded[j].at[idx] # 0} = J
                      /\ \A j \in J :
                           output.ret.at[idx] =
                             Operand(j, input.shapes[j]).at[[idx EXCEPT ![d] = @ - CatOffset(j)]]

\* C13 witness: three operands of sizes 2, 1, 2 along the last axis of
\* rank-2 tensors were concatenated along dim -1 into a tensor of size 5.
C13_Witness ==
  /\ output.op = "cat" /\ output.ret.err = ""
  /\ input.shapes = << <<2, 2>>, <<2, 1>>, <<2, 2>> >> /\ input.dim = -1
  /\ output.ret.shape = <<2, 5>>

\* the window starts 0, s, 2s, ... whose window of k elements fits in i elements
WindowStarts(i, k, s) == {w \in 0..i : w % s = 0 /\ w + k <= i}

\* C14: with every kernel between 1 and the axis length and every dilation 1,
\* _pool returns prefix, then per pooled axis floor((i-k)/s) + 1 (the number
\* of window starts whose window fits), then the kernel sizes; and every
\* reshape on the way asks for a shape of as many elements as the tensor has.
C14_PoolShape ==
  ( /\ output.op = "pool"
    /\ \A j \in DOMAIN input.k : input.k[j] <= input.i[j] /\ input.d[j] = 1 ) =>
    /\ output.ret.err = ""
    /\ output.ret.shape =
         input.prefix \o input.insert_dims
           \o [j \in DOMAIN input.k |-> (input.i[j] - input.k[j]) \div input.s[j] + 1]
           \o input.k
    /\ \A j \in DOMAIN input.k :
         output.ret.shape[Len(input.prefix) + Len(input.insert_dims) + j]
           = Cardinality(WindowStarts(input.i[j], input.k[j], input.s[j]))
    /\ \A r \in Range(output.ret.reshapes) : prod(r[1]) = prod(r[2])

\* C14 witness: two pooled axes, one with kernel 3 over stride 2 (general
\* path) whose last window does not fit, the other with kernel 1 under stride 3.
C14_Witness ==
  /\ output.op = "pool" /\ output.ret.err = ""
  /\ input.i = <<4, 4>> /\ input.k = <<3, 1>> /\ input.s = <<2, 3>> /\ input.d = <<1, 1>>
  /\ input.prefix = <<2>> /\ input.insert_dims = << >>
  /\ output.ret.shape = <<2, 1, 2, 3, 1>>

\* a shape with size-1 axes added on the left up to rank r, spelled out
Padded(shp, r) == [j \in 1..r |-> IF j <= r - Len(shp) THEN 1 ELSE shp[j - (r - Len(shp))]]

\* C15: when the operands' shapes, the lower-rank one padded on the left
\* with size-1 axes, agree on every axis or have size 1 on one side, the
\* result shape is their elementwise maximum; and a raw scalar operand enters
\* the operation as a scalar leaf with requires_grad False and no context.
C15_BroadcastShape ==
  output.op = "broadcasted" =>
    LET r == Max(Len(input.self.shape), Len(input.other.shape))
        a == Padded(input.self.shape, r)
        b == Padded(input.other.shape, r)
        promoted == IF input.reverse THEN output.ret.x ELSE output.ret.y
    IN /\ (\A j \in 1..r : a[j] = b[j] \/ a[j] = 1 \/ b[j] = 1) =>
            /\ output.ret.err = ""
            /\ output.ret.shape = [j \in 1..r |-> IF a[j] >= b[j] THEN a[j] ELSE b[j]]
       /\ input.other.raw =>
            /\ ~promoted.raw /\ promoted.shape = << >>
            /\ promoted.requires_grad = "False" /\ promoted.ctx = "none"

\* C15 witness: shapes (3,1) and (1,4) gave (3,4).
C15_Witness ==
  /\ output.op = "broadcasted" /\ output.ret.err = ""
  /\ input.self.shape = <<3, 1>> /\ input.other.shape = <<1, 4>> /\ ~input.other.raw
  /\ output.ret.shape = <<3, 4>>

BackwardStep == pc = "loop" \/ calls' # calls

\* C17: every step of backward changes the gradient only of the root and of
\* nodes whose requires_grad is True, and no buffer and no requires_grad; an
\* iteration at a context none of whose parents require gradients drops that
\* context, raises nothing and changes no gradient.
C17_BackwardFrame ==
  [][BackwardStep =>
       /\ \A n \in Nodes : grad'[n] # grad[n] => (n = root' \/ Truthy(requires_grad[n]))
       /\ lazydata' = lazydata /\ requires_grad' = requires_grad
       /\ (pc = "loop" /\ ~anyParentRequiresGrad(t0)) =>
            /\ grad' = grad /\ last' = last
            /\ ctx' = [ctx EXCEPT ![t0] = DeletedCtx]]_vars

\* C17 witness: a backward rule has run and returned a gradient for a
\* parent whose requires_grad is not True, and that parent's gradient is
\* what it was when backward was entered.
C17_Witness ==
  /\ Completed
  /\ \E c \in EntryWalk : \E k \in DOMAIN entry.ctx[c].parents :
       LET p == entry.ctx[c].parents[k]
       IN /\ grad[c].set /\ \E q \in Range(entry.ctx[c].parents) : Truthy(requires_grad[q])
          /\ ~Truthy(requires_grad[p]) /\ <<c, k>> \notin absent
          /\ p # root /\ grad[p] = entry.grad[p]

\* the <<child, slot>> of the running backward whose rule returned None for a
\* parent that requires gradients
NeededAbsent ==
  {e \in absent : Truthy(requires_grad[entry.ctx[e[1]].parents[e[2]]])}

\* C18: in a graph built by Function.apply whose requires_grad flags are as
\* constructed, as long as every rule of the running backward has returned a
\* gradient for every parent that requires one, the node whose rule is about
\* to be invoked (a parent of its context requires gradients) holds a gradient.
C18_GradPresent ==
  (pc = "loop" /\ NeededAbsent = {} /\ anyParentRequiresGrad(t0)) => grad[t0].set

\* C18 witness: in a second backward, after the first dropped a context, a
\* node other than the root is about to run its rule and holds its gradient.
C18_Witness ==
  /\ pc = "loop" /\ calls = 2 /\ absent = {}
  /\ t0 # root /\ anyParentRequiresGrad(t0) /\ grad[t0].set
  /\ \E n \in Nodes \ EntryWalk : ctx[n].state = "deleted"

====
